---- MODULE Spec2Model ----
(***************************************************************************)
(* Line annotation of chartjs-plugin-annotation (src/types/line.js):       *)
(* clipping of the resolved line to the chart area, hit testing, label     *)
(* measurement and label placement.                                        *)
(*                                                                         *)
(* JavaScript numbers are modelled as exact rationals extended with        *)
(* Infinity, -Infinity and NaN: a number is a record [n, d] that stands    *)
(* for n/d in lowest terms with d > 0; d = 0 encodes the non-finite values *)
(* (1/0 = Infinity, -1/0 = -Infinity, 0/0 = NaN).  Rounding is not         *)
(* modelled.                                                               *)
(***************************************************************************)
EXTENDS Integers, Sequences, FiniteSets, TLC

VARIABLES chartArea, raw, el, options, labelRect, widthCache, ret, pc, fresh

vars == <<chartArea, raw, el, options, labelRect, widthCache, ret, pc, fresh>>

----------------------------------------------------------------------------
(* Bounds of the model *)

MaxCoord == 3
MaxSide == 2
Unit == 2
MaxFont == 2
MaxPad == 1

----------------------------------------------------------------------------
(* Numbers *)

AbsInt(i) == IF i < 0 THEN -i ELSE i
SgnInt(i) == IF i < 0 THEN -1 ELSE IF i > 0 THEN 1 ELSE 0

RECURSIVE GCD(_, _)
GCD(a, b) == IF b = 0 THEN a ELSE GCD(b, a % b)

NaN == [n |-> 0, d |-> 0]

\* n/d as a number; d = 0 gives NaN or a signed Infinity, as a division by +0 does
Frac(n, d) ==
    IF d = 0 THEN [n |-> SgnInt(n), d |-> 0]
    ELSE LET g == GCD(AbsInt(n), AbsInt(d))
             s == SgnInt(d)
         IN [n |-> (s * n) \div g, d |-> (s * d) \div g]

Num(i) == [n |-> i, d |-> 1]

isNaN(a) == a.d = 0 /\ a.n = 0
isFinite(a) == a.d > 0

\* a + b
Add(a, b) ==
    IF isNaN(a) \/ isNaN(b) THEN NaN
    ELSE IF a.d = 0 /\ b.d = 0 THEN (IF a.n = b.n THEN a ELSE NaN)
    ELSE IF a.d = 0 THEN a
    ELSE IF b.d = 0 THEN b
    ELSE Frac(a.n * b.d + b.n * a.d, a.d * b.d)

\* -a
Neg(a) == [n |-> -a.n, d |-> a.d]

\* a - b
Sub(a, b) == Add(a, Neg(b))

\* a * b
Mul(a, b) ==
    IF isNaN(a) \/ isNaN(b) THEN NaN
    ELSE IF a.d = 0 \/ b.d = 0 THEN Frac(SgnInt(a.n) * SgnInt(b.n), 0)
    ELSE Frac(a.n * b.n, a.d * b.d)

\* a / b
Div(a, b) ==
    IF isNaN(a) \/ isNaN(b) THEN NaN
    ELSE IF a.d = 0 /\ b.d = 0 THEN NaN
    ELSE IF a.d = 0 THEN (IF b.n < 0 THEN Neg(a) ELSE a)
    ELSE IF b.d = 0 THEN Num(0)
    ELSE Frac(a.n * b.d, a.d * b.n)

\* a < b
Lt(a, b) ==
    /\ ~isNaN(a)
    /\ ~isNaN(b)
    /\ IF a.d = 0 /\ b.d = 0 THEN a.n < b.n
       ELSE IF a.d = 0 THEN a.n < 0
       ELSE IF b.d = 0 THEN b.n > 0
       ELSE a.n * b.d < b.n * a.d

\* a > b, a <= b, a >= b, a === b
Gt(a, b) == Lt(b, a)
Le(a, b) == ~isNaN(a) /\ ~isNaN(b) /\ ~Lt(b, a)
Ge(a, b) == Le(b, a)
Eq(a, b) == ~isNaN(a) /\ ~isNaN(b) /\ a = b

\* Math.abs, Math.min, Math.max
Abs(a) == [n |-> AbsInt(a.n), d |-> a.d]
Min(a, b) == IF isNaN(a) \/ isNaN(b) THEN NaN ELSE IF Lt(b, a) THEN b ELSE a
Max(a, b) == IF isNaN(a) \/ isNaN(b) THEN NaN ELSE IF Lt(a, b) THEN b ELSE a

----------------------------------------------------------------------------
(* Clipping of the line to the chart area *)

pointInLine(p1, p2, t) ==
    [x |-> Add(p1.x, Mul(t, Sub(p2.x, p1.x))),
     y |-> Add(p1.y, Mul(t, Sub(p2.y, p1.y)))]

interpolateX(y, p1, p2) ==
    pointInLine(p1, p2, Abs(Div(Sub(y, p1.y), Sub(p2.y, p1.y)))).x

interpolateY(x, p1, p2) ==
    pointInLine(p1, p2, Abs(Div(Sub(x, p1.x), Sub(p2.x, p1.x)))).y

isLineInArea(l, area) ==
    ~ \/ (Lt(l.x, area.left) /\ Lt(l.x2, area.left))
      \/ (Gt(l.x, area.right) /\ Gt(l.x2, area.right))
      \/ (Lt(l.y, area.top) /\ Lt(l.y2, area.top))
      \/ (Gt(l.y, area.bottom) /\ Gt(l.y2, area.bottom))

\* the four edge steps of limitPointToArea, in the order of the code
limitLeft(p, p2, area) ==
    IF Lt(p.x, area.left)
    THEN [x |-> area.left, y |-> interpolateY(area.left, p, p2)] ELSE p

limitRight(p, p2, area) ==
    IF Gt(p.x, area.right)
    THEN [x |-> area.right, y |-> interpolateY(area.right, p, p2)] ELSE p

limitTop(p, p2, area) ==
    IF Lt(p.y, area.top)
    THEN [x |-> interpolateX(area.top, p, p2), y |-> area.top] ELSE p

limitBottom(p, p2, area) ==
    IF Gt(p.y, area.bottom)
    THEN [x |-> interpolateX(area.bottom, p, p2), y |-> area.bottom] ELSE p

limitPointToArea(p, p2, area) ==
    limitBottom(limitTop(limitRight(limitLeft(p, p2, area), p2, area), p2, area), p2, area)

extent(x, y, x2, y2) ==
    [x |-> x, y |-> y, x2 |-> x2, y2 |-> y2,
     width |-> Abs(Sub(x2, x)), height |-> Abs(Sub(y2, y))]

limitLineToArea(p1, p2, area) ==
    LET a == limitPointToArea(p1, p2, area)
        b == limitPointToArea(p2, p1, area)
    IN extent(a.x, a.y, b.x, b.y)

\* scaleValue of ../helpers: the pixel of the option value on the scale, or the
\* fallback when the option is not a finite value
Undefined == [undefined |-> TRUE]

scaleValue(pixel, fallback) == IF pixel = Undefined THEN fallback ELSE pixel

\* local x, y, x2, y2 of resolveElementProperties before clipping
rawByScale(area, horizontal, value, endValue) ==
    LET min == scaleValue(value, NaN)
        max == scaleValue(endValue, min)
    IN IF horizontal
       THEN [x |-> min, y |-> area.top, x2 |-> max, y2 |-> area.bottom]
       ELSE [x |-> area.left, y |-> min, x2 |-> area.right, y2 |-> max]

rawByXY(area, xScale, yScale, xMin, xMax, yMin, yMax) ==
    [x  |-> IF xScale THEN scaleValue(xMin, area.left) ELSE area.left,
     x2 |-> IF xScale THEN scaleValue(xMax, area.right) ELSE area.right,
     y  |-> IF yScale THEN scaleValue(yMin, area.top) ELSE area.top,
     y2 |-> IF yScale THEN scaleValue(yMax, area.bottom) ELSE area.bottom]

\* faulty variant of clipOrKeep: the overlap test is skipped and every line is clipped
clipAlways(l, area) ==
    limitLineToArea([x |-> l.x, y |-> l.y], [x |-> l.x2, y |-> l.y2], area)

clipOrKeep(l, area) ==
    IF isLineInArea(l, area)
    THEN limitLineToArea([x |-> l.x, y |-> l.y], [x |-> l.x2, y |-> l.y2], area)
    ELSE extent(l.x, l.y, l.x2, l.y2)

----------------------------------------------------------------------------
(* State *)

Coords == (1 - MaxCoord)..MaxCoord
Pixels == {Num(i) : i \in Coords}
Values == Pixels \cup {Undefined}

Areas ==
    {[left |-> Num(l), right |-> Num(r), top |-> Num(t), bottom |-> Num(b)] :
        <<l, r, t, b>> \in {q \in (0..MaxSide) \X (0..MaxSide) \X (0..MaxSide) \X (0..MaxSide) :
                               q[1] < q[2] /\ q[3] < q[4]}}

NoLine == [x |-> NaN, y |-> NaN, x2 |-> NaN, y2 |-> NaN]
Unresolved == extent(NaN, NaN, NaN, NaN)
NoRect == [undefined |-> TRUE]
NoRet == [op |-> "none"]

\* LineAnnotation.defaults, restricted to the options the geometry reads; the
\* font size left undefined there resolves to the chart's default font size
defaultLabel ==
    [enabled |-> FALSE, content |-> [type |-> "null"], font |-> [size |-> Num(12)],
     rotation |-> [kind |-> "degrees", value |-> 0], position |-> "center",
     xPadding |-> Num(6), yPadding |-> Num(6), xAdjust |-> Num(0), yAdjust |-> Num(0),
     width |-> Undefined, height |-> Undefined]

defaults == [borderWidth |-> Num(2), label |-> defaultLabel]

EmptyCache == [t \in {} |-> NaN]

Constructed(area) ==
    /\ chartArea = area
    /\ raw = NoLine
    /\ el = Unresolved
    /\ options = defaults
    /\ labelRect = NoRect
    /\ widthCache = EmptyCache
    /\ ret = NoRet
    /\ pc = "constructed"
    /\ fresh = FALSE

----------------------------------------------------------------------------
(* Clipping: one resolveElementProperties call on a constructed element *)

\* the raw lines the scales can produce on the pixel grid
RawLines(area) ==
    {rawByScale(area, h, v, e) : h \in BOOLEAN, v \in Values, e \in Values}
    \cup {rawByXY(area, xs, ys, q[1], q[2], q[3], q[4]) :
             xs \in BOOLEAN, ys \in BOOLEAN, q \in Values \X Values \X Values \X Values}

\* a chart update: the options are resolved anew and resolveElementProperties
\* gives the element its new geometry
Resolve(lines, opts) ==
    /\ pc \in {"constructed", "drawn", "queried"}
    /\ \E l \in lines, o \in opts :
          /\ raw' = l
          /\ el' = clipOrKeep(l, chartArea)
          /\ options' = o
    /\ pc' = "resolved"
    /\ fresh' = FALSE
    /\ ret' = NoRet
    /\ UNCHANGED <<chartArea, labelRect, widthCache>>

InitClip == \E area \in Areas : Constructed(area)

ResolveElementProperties == Resolve(RawLines(chartArea), {defaults})

NextClip == ResolveElementProperties

SpecClip == InitClip /\ [][NextClip]_vars

lineIsFinite(l) == isFinite(l.x) /\ isFinite(l.y) /\ isFinite(l.x2) /\ isFinite(l.y2)

pointInArea(x, y, area) ==
    Le(area.left, x) /\ Le(x, area.right) /\ Le(area.top, y) /\ Le(y, area.bottom)

\* C1: with finite endpoints whose bounding box overlaps the chart area, both
\* resolved endpoints lie inside or on the chart area.
C1_ClippedInsideArea ==
    (pc = "resolved" /\ lineIsFinite(raw) /\ isLineInArea(raw, chartArea))
        => /\ pointInArea(el.x, el.y, chartArea)
           /\ pointInArea(el.x2, el.y2, chartArea)

\* C2: the resolved geometry keeps the endpoints of a line whose bounding box
\* misses the chart area, keeps every endpoint that already lies inside or on
\* the chart area, and reports width and height of the returned endpoints.
C2_ClipKeepsWhatFits ==
    pc = "resolved" =>
        /\ ~isLineInArea(raw, chartArea) =>
              (el.x = raw.x /\ el.y = raw.y /\ el.x2 = raw.x2 /\ el.y2 = raw.y2)
        /\ pointInArea(raw.x, raw.y, chartArea) => (el.x = raw.x /\ el.y = raw.y)
        /\ pointInArea(raw.x2, raw.y2, chartArea) => (el.x2 = raw.x2 /\ el.y2 = raw.y2)
        /\ el.width = Abs(Sub(el.x2, el.x))
        /\ el.height = Abs(Sub(el.y2, el.y))

C2_Witness ==
    /\ pc = "resolved" /\ isLineInArea(raw, chartArea)
    /\ pointInArea(raw.x, raw.y, chartArea)
    /\ ~pointInArea(raw.x2, raw.y2, chartArea)
    /\ el.x = raw.x /\ el.y = raw.y
    /\ pointInArea(el.x2, el.y2, chartArea)
    /\ el.x2 # raw.x2

\* (px, py) is a point of the closed segment l: collinear with its endpoints
\* and between them
onSegment(px, py, l) ==
    /\ Eq(Mul(Sub(px, l.x), Sub(l.y2, l.y)), Mul(Sub(py, l.y), Sub(l.x2, l.x)))
    /\ Le(Min(l.x, l.x2), px) /\ Le(px, Max(l.x, l.x2))
    /\ Le(Min(l.y, l.y2), py) /\ Le(py, Max(l.y, l.y2))

\* C8: with finite endpoints whose bounding box overlaps the chart area, each
\* resolved endpoint is a point of the original segment.
C8_ClippedOnSegment ==
    (pc = "resolved" /\ lineIsFinite(raw) /\ isLineInArea(raw, chartArea))
        => /\ onSegment(el.x, el.y, raw)
           /\ onSegment(el.x2, el.y2, raw)

\* C10: with finite, distinct endpoints whose bounding box overlaps the chart
\* area, no interpolation divides by zero: every number of the resolved
\* geometry is finite.
C10_ClippedFinite ==
    (/\ pc = "resolved" /\ lineIsFinite(raw) /\ isLineInArea(raw, chartArea)
     /\ (raw.x # raw.x2 \/ raw.y # raw.y2))
        => /\ lineIsFinite(el)
           /\ isFinite(el.width) /\ isFinite(el.height)

----------------------------------------------------------------------------
(* Hit test of the line *)

sqr(v) == Mul(v, v)

\* faulty variant of intersects: the comparison with epsilon is not strict
intersectsLe(l, x, y, epsilon) ==
    LET dx == Sub(l.x2, l.x)
        dy == Sub(l.y2, l.y)
        lenSq == Add(sqr(dx), sqr(dy))
        t == IF Eq(lenSq, Num(0)) THEN Num(-1)
             ELSE Div(Add(Mul(Sub(x, l.x), dx), Mul(Sub(y, l.y), dy)), lenSq)
        xx == IF Lt(t, Num(0)) THEN l.x ELSE IF Gt(t, Num(1)) THEN l.x2
              ELSE Add(l.x, Mul(t, dx))
        yy == IF Lt(t, Num(0)) THEN l.y ELSE IF Gt(t, Num(1)) THEN l.y2
              ELSE Add(l.y, Mul(t, dy))
    IN Le(Add(sqr(Sub(x, xx)), sqr(Sub(y, yy))), epsilon)

\* faulty variant of intersects: the second branch tests t > 0 instead of t > 1
intersectsBranch(l, x, y, epsilon) ==
    LET dx == Sub(l.x2, l.x)
        dy == Sub(l.y2, l.y)
        lenSq == Add(sqr(dx), sqr(dy))
        t == IF Eq(lenSq, Num(0)) THEN Num(-1)
             ELSE Div(Add(Mul(Sub(x, l.x), dx), Mul(Sub(y, l.y), dy)), lenSq)
        xx == IF Lt(t, Num(0)) THEN l.x ELSE IF Gt(t, Num(0)) THEN l.x2
              ELSE Add(l.x, Mul(t, dx))
        yy == IF Lt(t, Num(0)) THEN l.y ELSE IF Gt(t, Num(0)) THEN l.y2
              ELSE Add(l.y, Mul(t, dy))
    IN Lt(Add(sqr(Sub(x, xx)), sqr(Sub(y, yy))), epsilon)

intersects(l, x, y, epsilon) ==
    LET dx == Sub(l.x2, l.x)
        dy == Sub(l.y2, l.y)
        lenSq == Add(sqr(dx), sqr(dy))
        t == IF Eq(lenSq, Num(0)) THEN Num(-1)
             ELSE Div(Add(Mul(Sub(x, l.x), dx), Mul(Sub(y, l.y), dy)), lenSq)
        xx == IF Lt(t, Num(0)) THEN l.x ELSE IF Gt(t, Num(1)) THEN l.x2
              ELSE Add(l.x, Mul(t, dx))
        yy == IF Lt(t, Num(0)) THEN l.y ELSE IF Gt(t, Num(1)) THEN l.y2
              ELSE Add(l.y, Mul(t, dy))
    IN Lt(Add(sqr(Sub(x, xx)), sqr(Sub(y, yy))), epsilon)

\* the element after its first resolveElementProperties
Resolved(area, l, o) ==
    /\ chartArea = area
    /\ raw = l
    /\ el = clipOrKeep(l, area)
    /\ options = o
    /\ labelRect = NoRect
    /\ widthCache = EmptyCache
    /\ ret = NoRet
    /\ pc = "resolved"
    /\ fresh = FALSE

FullArea == [left |-> Num(0), right |-> Num(MaxSide), top |-> Num(0), bottom |-> Num(MaxSide)]

Segments ==
    {[x |-> Num(q[1]), y |-> Num(q[2]), x2 |-> Num(q[3]), y2 |-> Num(q[4])] :
        q \in (0..MaxSide) \X (0..MaxSide) \X (0..MaxSide) \X (0..MaxSide)}

\* query coordinates: the half-integer grid around the chart area
Halves == {Frac(i, 2) : i \in (-1)..(2 * MaxSide + 1)}
Epsilons == {Num(0), Frac(1, 4), Num(1), Num(4)}

InitHit == \E l \in Segments : Resolved(FullArea, l, defaults)

Intersects ==
    /\ pc = "resolved"
    /\ \E x \in Halves, y \in Halves, epsilon \in Epsilons :
          ret' = [op |-> "intersects", x |-> x, y |-> y, epsilon |-> epsilon,
                  value |-> intersects(el, x, y, epsilon)]
    /\ pc' = "queried"
    /\ UNCHANGED <<chartArea, raw, el, options, labelRect, widthCache, fresh>>

NextHit == Intersects

SpecHit == InitHit /\ [][NextHit]_vars

distSq(x, y, p) == Add(sqr(Sub(x, p.x)), sqr(Sub(y, p.y)))

\* the segment's point at the projection parameter of (x, y) clamped to [0, 1];
\* the first endpoint when the segment has zero length
nearestPoint(l, x, y) ==
    LET p1 == [x |-> l.x, y |-> l.y]
        p2 == [x |-> l.x2, y |-> l.y2]
        lenSq == distSq(l.x2, l.y2, p1)
        proj == Add(Mul(Sub(x, l.x), Sub(l.x2, l.x)), Mul(Sub(y, l.y), Sub(l.y2, l.y)))
    IN IF lenSq = Num(0) THEN p1
       ELSE pointInLine(p1, p2, Max(Num(0), Min(Num(1), Div(proj, lenSq))))

\* points of the segment at the parameters 0, 1/4, 1/2, 3/4, 1
Samples(l) ==
    {pointInLine([x |-> l.x, y |-> l.y], [x |-> l.x2, y |-> l.y2], Frac(k, 4)) : k \in 0..4}

\* C3: intersects returns true exactly when the squared distance from the
\* query point to the nearest point of the closed segment is strictly below
\* epsilon; no sampled point of the segment is nearer than that point.
C3_IntersectsIsSegmentDistance ==
    ret.op = "intersects" =>
        LET d == distSq(ret.x, ret.y, nearestPoint(el, ret.x, ret.y))
        IN /\ ret.value <=> Lt(d, ret.epsilon)
           /\ \A s \in Samples(el) : Le(d, distSq(ret.x, ret.y, s))

C3_Witness ==
    /\ ret.op = "intersects"
    /\ ret.value
    /\ (el.x # el.x2 \/ el.y # el.y2)
    /\ distSq(ret.x, ret.y, nearestPoint(el, ret.x, ret.y)) # Num(0)
    /\ nearestPoint(el, ret.x, ret.y) \notin {[x |-> el.x, y |-> el.y], [x |-> el.x2, y |-> el.y2]}

atMidpoint(r, l) ==
    /\ r.op = "intersects"
    /\ r.x = Div(Add(l.x, l.x2), Num(2))
    /\ r.y = Div(Add(l.y, l.y2), Num(2))

\* C4 as stated: a query at the segment midpoint hits for every epsilon >= 0.
C4_MidpointHitsAnyEpsilon ==
    (atMidpoint(ret, el) /\ Ge(ret.epsilon, Num(0))) => ret.value

\* C4: a query at the segment midpoint hits for every epsilon > 0, and misses
\* for epsilon = 0 because the comparison with epsilon is strict.
C4_MidpointHitsPositiveEpsilon ==
    atMidpoint(ret, el) => (ret.value <=> Gt(ret.epsilon, Num(0)))

C4_Witness ==
    /\ atMidpoint(ret, el)
    /\ (el.x # el.x2 \/ el.y # el.y2)
    /\ ret.epsilon = Frac(1, 4)
    /\ ret.value

----------------------------------------------------------------------------
(* Angles *)

\* An angle is q quarter turns plus the arctangent of the slope s >= 0:
\* q * PI/2 + atan(s), with 0 <= atan(s) < PI/2.  A NaN slope is the NaN angle.
Angle(q, s) == [q |-> q, s |-> s]

AngNaN == Angle(0, NaN)
angIsNaN(a) == isNaN(a.s)

PI == Angle(2, Num(0))
HalfPI == Angle(1, Num(0))
NegHalfPI == Angle(-1, Num(0))

\* a + k * PI
AddPI(a, k) == Angle(a.q + 2 * k, a.s)

\* a < b, a > b, a <= b
AngLt(a, b) ==
    ~angIsNaN(a) /\ ~angIsNaN(b) /\ (a.q < b.q \/ (a.q = b.q /\ Lt(a.s, b.s)))
AngGt(a, b) == AngLt(b, a)
AngLe(a, b) == ~angIsNaN(a) /\ ~angIsNaN(b) /\ ~AngLt(b, a)

\* Math.atan2(dy, dx), a value of (-PI, PI]
atan2(dy, dx) ==
    LET zero == Num(0) IN
    IF isNaN(dy) \/ isNaN(dx) THEN AngNaN
    ELSE IF ~isFinite(dy) /\ ~isFinite(dx)
         THEN Angle(IF Gt(dy, zero) THEN (IF Gt(dx, zero) THEN 0 ELSE 1)
                    ELSE (IF Gt(dx, zero) THEN -1 ELSE -2), Num(1))
    ELSE IF ~isFinite(dy) THEN (IF Gt(dy, zero) THEN HalfPI ELSE NegHalfPI)
    ELSE IF ~isFinite(dx)
         THEN (IF Gt(dx, zero) THEN Angle(0, zero)
               ELSE IF Ge(dy, zero) THEN PI ELSE Angle(-2, zero))
    ELSE IF Gt(dx, zero) /\ Ge(dy, zero) THEN Angle(0, Div(dy, dx))
    ELSE IF Le(dx, zero) /\ Gt(dy, zero) THEN Angle(1, Div(Neg(dx), dy))
    ELSE IF Lt(dx, zero) /\ Eq(dy, zero) THEN PI
    ELSE IF Lt(dx, zero) /\ Lt(dy, zero) THEN Angle(-2, Div(dy, dx))
    ELSE IF Ge(dx, zero) /\ Lt(dy, zero) THEN Angle(-1, Div(dx, Neg(dy)))
    ELSE Angle(0, zero)

\* toRadians of chart.js/helpers, for whole quarter turns
toRadians(degrees) == Angle(degrees \div 90, Num(0))

\* cosine and sine of atan(s): defined when the hypotenuse is rational
hypot(s) == CHOOSE h \in 0..(s.n + s.d) : h * h = s.n * s.n + s.d * s.d

cosSin(a) ==
    IF angIsNaN(a) THEN [cos |-> NaN, sin |-> NaN]
    ELSE LET h == hypot(a.s)
             c == Frac(a.s.d, h)
             s == Frac(a.s.n, h)
             k == a.q % 4
         IN IF k = 0 THEN [cos |-> c, sin |-> s]
            ELSE IF k = 1 THEN [cos |-> Neg(s), sin |-> c]
            ELSE IF k = 2 THEN [cos |-> Neg(c), sin |-> Neg(s)]
            ELSE [cos |-> s, sin |-> Neg(c)]

\* faulty variant of calculateAutoRotation: only rotations above PI/2 are flipped
calculateAutoRotationHalf(line) ==
    LET rotation == atan2(Sub(line.y2, line.y), Sub(line.x2, line.x))
    IN IF AngGt(rotation, HalfPI) THEN AddPI(rotation, -1) ELSE rotation

calculateAutoRotation(line) ==
    LET rotation == atan2(Sub(line.y2, line.y), Sub(line.x2, line.x))
    IN IF AngGt(rotation, HalfPI) THEN AddPI(rotation, -1)
       ELSE IF AngLt(rotation, NegHalfPI) THEN AddPI(rotation, 1)
       ELSE rotation

----------------------------------------------------------------------------
(* Auto rotation of the label *)

GridLines ==
    {[x |-> q[1], y |-> q[2], x2 |-> q[3], y2 |-> q[4]] :
        q \in Pixels \X Pixels \X Pixels \X Pixels}

InitRotation == \E l \in GridLines : Resolved(FullArea, l, defaults)

CalculateAutoRotation ==
    /\ pc = "resolved"
    /\ ret' = [op |-> "calculateAutoRotation", value |-> calculateAutoRotation(el)]
    /\ pc' = "queried"
    /\ UNCHANGED <<chartArea, raw, el, options, labelRect, widthCache, fresh>>

NextRotation == CalculateAutoRotation

SpecRotation == InitRotation /\ [][NextRotation]_vars

----------------------------------------------------------------------------
(* Label measurement and placement *)

toPercent(s) == IF s.percent THEN Div(s.number, Num(100)) ELSE Num(0)

getImageSize(size, value) ==
    IF value = Undefined THEN size
    ELSE IF value.type = "number" THEN value.number
    ELSE Mul(toPercent(value), size)

\* ctx.measureText(text).width with the font set on the context: every
\* character is as wide as the font size
measureText(font, text) == Mul(Num(Len(text)), font.size)

contentLines(content) ==
    IF content.type = "array" THEN content.lines ELSE <<content.text>>

\* the loop of measureLabel from line i on
RECURSIVE measureLines(_, _, _, _, _)
measureLines(font, lines, i, width, cache) ==
    IF i > Len(lines) THEN [width |-> width, cache |-> cache]
    ELSE LET text == lines[i]
             filled == IF text \in DOMAIN cache THEN cache
                       ELSE (text :> measureText(font, text)) @@ cache
         IN measureLines(font, lines, i + 1, Max(width, filled[text]), filled)

measureLabel(label, cache) ==
    IF label.content.type = "image"
    THEN [width |-> Add(getImageSize(label.content.width, label.width),
                        Mul(Num(2), label.xPadding)),
          height |-> Add(getImageSize(label.content.height, label.height),
                         Mul(Num(2), label.yPadding)),
          cache |-> cache]
    ELSE LET lines == contentLines(label.content)
             count == Num(Len(lines))
             m == measureLines(label.font, lines, 1, Num(0), cache)
         IN [width |-> Add(m.width, Mul(Num(2), label.xPadding)),
             height |-> Add(Mul(count, label.font.size),
                            Mul(Add(count, Num(1)), label.yPadding)),
             cache |-> m.cache]

rotatedSize(width, height, rotation) ==
    LET cs == cosSin(rotation)
    IN [w |-> Add(Abs(Mul(width, cs.cos)), Abs(Mul(height, cs.sin))),
        h |-> Add(Abs(Mul(width, cs.sin)), Abs(Mul(height, cs.cos)))]

spaceAround(line, area) ==
    LET t == Sub(Min(line.y, line.y2), area.top)
        l == Sub(Min(line.x, line.x2), area.left)
        b == Sub(area.bottom, Max(line.y, line.y2))
        r == Sub(area.right, Max(line.x, line.x2))
    IN [x |-> Min(l, r), y |-> Min(t, b),
        dx |-> IF Lt(l, r) THEN Num(1) ELSE Num(-1),
        dy |-> IF Lt(t, b) THEN Num(1) ELSE Num(-1)]

\* clamp of ../helpers
clamp(x, from, to) == Min(to, Max(from, x))

calculateTAdjust(lineSize, labelSize, label, space) ==
    LET lineW == Mul(lineSize.w, space.dx)
        lineH == Mul(lineSize.h, space.dy)
        x == IF Gt(lineW, Num(0))
             THEN Div(Sub(Add(Div(labelSize.w, Num(2)), label.xPadding), space.x), lineW)
             ELSE Num(0)
        y == IF Gt(lineH, Num(0))
             THEN Div(Sub(Add(Div(labelSize.h, Num(2)), label.yPadding), space.y), lineH)
             ELSE Num(0)
    IN clamp(Max(x, y), Num(0), Frac(1, 4))

calculateT(line, position, rotSize, area) ==
    LET space == spaceAround(line, area)
        label == line.options.label
    IN IF position = "start"
       THEN calculateTAdjust([w |-> Sub(line.x2, line.x), h |-> Sub(line.y2, line.y)],
                             rotSize, label, space)
       ELSE IF position = "end"
       THEN Sub(Num(1),
                calculateTAdjust([w |-> Sub(line.x, line.x2), h |-> Sub(line.y, line.y2)],
                                 rotSize, label, space))
       ELSE Frac(1, 2)

\* faulty variant of adjustLabelCoordinate: the coordinate is not pushed back
\* from the far edge
adjustLabelCoordinateNearOnly(coordinate, labelSizes) ==
    LET halfSize == Div(labelSizes.size, Num(2))
    IN IF Gt(labelSizes.size, Sub(labelSizes.max, labelSizes.min))
       THEN Div(Add(labelSizes.max, labelSizes.min), Num(2))
       ELSE IF Ge(labelSizes.min, Sub(Sub(coordinate, labelSizes.padding), halfSize))
            THEN Add(Add(labelSizes.min, labelSizes.padding), halfSize)
            ELSE coordinate

adjustLabelCoordinate(coordinate, labelSizes) ==
    LET halfSize == Div(labelSizes.size, Num(2))
        near == IF Ge(labelSizes.min, Sub(Sub(coordinate, labelSizes.padding), halfSize))
                THEN Add(Add(labelSizes.min, labelSizes.padding), halfSize)
                ELSE coordinate
    IN IF Gt(labelSizes.size, Sub(labelSizes.max, labelSizes.min))
       THEN Div(Add(labelSizes.max, labelSizes.min), Num(2))
       ELSE IF Le(labelSizes.max, Add(Add(near, labelSizes.padding), halfSize))
            THEN Sub(Sub(labelSizes.max, labelSizes.padding), halfSize)
            ELSE near

labelRotation(line) ==
    LET label == line.options.label
    IN IF label.rotation.kind = "auto" THEN calculateAutoRotation(line)
       ELSE toRadians(label.rotation.value)

\* the point of the line the label is anchored to, before it is adjusted
labelAnchor(line, width, height, area) ==
    LET size == rotatedSize(width, height, labelRotation(line))
        t == calculateT(line, line.options.label.position, size, area)
    IN pointInLine([x |-> line.x, y |-> line.y], [x |-> line.x2, y |-> line.y2], t)

calculateLabelPosition(line, width, height, area) ==
    LET label == line.options.label
        rotation == labelRotation(line)
        size == rotatedSize(width, height, rotation)
        pt == labelAnchor(line, width, height, area)
        xCoordinateSizes == [size |-> size.w, min |-> area.left, max |-> area.right,
                             padding |-> label.xPadding]
        yCoordinateSizes == [size |-> size.h, min |-> area.top, max |-> area.bottom,
                             padding |-> label.yPadding]
    IN [x |-> Add(adjustLabelCoordinate(pt.x, xCoordinateSizes), label.xAdjust),
        y |-> Add(adjustLabelCoordinate(pt.y, yCoordinateSizes), label.yAdjust),
        width |-> width, height |-> height, rotation |-> rotation]

\* the element as its methods see it: the geometry and this.options
This == [x |-> el.x, y |-> el.y, x2 |-> el.x2, y2 |-> el.y2, options |-> options]

labelIsVisible(line, area) ==
    LET label == line.options.label
        inside == IF area = Undefined THEN TRUE ELSE isLineInArea(line, area)
    IN inside /\ label.enabled /\ label.content.type # "null"

\* drawLabel(ctx, chartArea) of the element and the drawLabel function it calls;
\* ctx.restore() undoes the font and the transform set on the context
DrawLabel ==
    /\ pc = "resolved"
    /\ IF labelIsVisible(This, chartArea)
       THEN LET m == measureLabel(options.label, widthCache)
            IN /\ labelRect' = calculateLabelPosition(This, m.width, m.height, chartArea)
               /\ widthCache' = m.cache
               /\ fresh' = TRUE
       ELSE UNCHANGED <<labelRect, widthCache, fresh>>
    /\ pc' = "drawn"
    /\ UNCHANGED <<chartArea, raw, el, options, ret>>

----------------------------------------------------------------------------
(* Label placement: the first drawLabel of a resolved element *)

\* a chart area of 4 by 3 units
LabelArea ==
    [left |-> Num(0), right |-> Num(4 * Unit), top |-> Num(0), bottom |-> Num(3 * Unit)]

\* lines along the axes, along the 3-4-5 diagonal, off the area, and the line of
\* a scale that has no value
LabelLines ==
    {rawByScale(LabelArea, h, v, Undefined) :
        h \in BOOLEAN, v \in {Num(0), Num(Unit), Undefined}}
    \cup {rawByXY(LabelArea, TRUE, TRUE, Num(q[1]), Num(q[2]), Num(q[3]), Num(q[4])) :
             q \in {<<0, 4 * Unit, 0, 3 * Unit>>,
                    <<4 * Unit, 0, 3 * Unit, 0>>,
                    <<-4 * Unit, 8 * Unit, -3 * Unit, 6 * Unit>>,
                    <<Unit, Unit + 4, Unit, Unit + 3>>,
                    <<-2 * Unit, -Unit, Unit, Unit>>}}

Strings == {"A", "AAA"}

TextContents ==
    {[type |-> "string", text |-> t] : t \in Strings}
    \cup {[type |-> "array", lines |-> <<"A", "AAA">>]}

ImageContents == {[type |-> "image", width |-> Num(4), height |-> Num(2)]}

ImageSizes ==
    {Undefined, [type |-> "number", number |-> Num(1)],
     [type |-> "string", percent |-> TRUE, number |-> Num(50)]}

Fonts == {[size |-> Num(i)] : i \in 1..MaxFont}
Paddings == {Num(i) : i \in 0..MaxPad}
Positions == {"start", "center", "end"}
Rotations == {[kind |-> "degrees", value |-> 0], [kind |-> "degrees", value |-> 90],
              [kind |-> "auto"]}

labelWith(content, font, rotation, position, xPadding, yPadding, adjust, size) ==
    [defaultLabel EXCEPT !.enabled = TRUE, !.content = content, !.font = font,
                         !.rotation = rotation, !.position = position,
                         !.xPadding = xPadding, !.yPadding = yPadding,
                         !.xAdjust = adjust, !.yAdjust = adjust,
                         !.width = size, !.height = size]

LabelOptions ==
    {[defaults EXCEPT !.label = labelWith(c, f, r, p, xp, yp, a, Undefined)] :
        c \in TextContents, f \in Fonts, r \in Rotations, p \in Positions,
        xp \in Paddings, yp \in Paddings, a \in {Num(0), Num(1)}}
    \cup {[defaults EXCEPT !.label = labelWith(c, f, r, "center", Num(0), Num(0), Num(0), sz)] :
        c \in ImageContents, f \in Fonts, r \in Rotations, sz \in ImageSizes}

InitLabel == \E l \in LabelLines, o \in LabelOptions : Resolved(LabelArea, l, o)

NextLabel == DrawLabel

SpecLabel == InitLabel /\ [][NextLabel]_vars

\* min + padding + size/2 <= coordinate <= max - padding - size/2
anchorContained(coordinate, size, min, max, padding) ==
    /\ Le(Add(Add(min, padding), Div(size, Num(2))), coordinate)
    /\ Le(coordinate, Sub(Sub(max, padding), Div(size, Num(2))))

drawnUnadjusted ==
    /\ pc = "drawn" /\ fresh
    /\ options.label.xAdjust = Num(0) /\ options.label.yAdjust = Num(0)

footprint == rotatedSize(labelRect.width, labelRect.height, labelRect.rotation)

anchor == labelAnchor(This, labelRect.width, labelRect.height, chartArea)

\* C5 as stated: without adjustment, on each axis on which the rotated
\* footprint is not larger than the chart area, the label anchor keeps padding
\* plus half the footprint away from both edges.
C5_AnchorContainedIfFits ==
    drawnUnadjusted =>
        /\ Le(footprint.w, Sub(chartArea.right, chartArea.left)) =>
              anchorContained(labelRect.x, footprint.w, chartArea.left, chartArea.right,
                              options.label.xPadding)
        /\ Le(footprint.h, Sub(chartArea.bottom, chartArea.top)) =>
              anchorContained(labelRect.y, footprint.h, chartArea.top, chartArea.bottom,
                              options.label.yPadding)

\* C5: without adjustment, on each axis on which the rotated footprint plus the
\* padding on both sides is not larger than the chart area and the anchor
\* coordinate on the line is not NaN, the label anchor keeps padding plus half
\* the footprint away from both edges.
C5_AnchorContainedIfFitsPadded ==
    drawnUnadjusted =>
        /\ (/\ ~isNaN(anchor.x)
            /\ Le(Add(footprint.w, Mul(Num(2), options.label.xPadding)),
                  Sub(chartArea.right, chartArea.left))) =>
              anchorContained(labelRect.x, footprint.w, chartArea.left, chartArea.right,
                              options.label.xPadding)
        /\ (/\ ~isNaN(anchor.y)
            /\ Le(Add(footprint.h, Mul(Num(2), options.label.yPadding)),
                  Sub(chartArea.bottom, chartArea.top))) =>
              anchorContained(labelRect.y, footprint.h, chartArea.top, chartArea.bottom,
                              options.label.yPadding)

\* a label anchored too close to the far edge was pushed back inside
C5_Witness ==
    /\ drawnUnadjusted
    /\ ~isNaN(anchor.x)
    /\ options.label.xPadding = Num(1)
    /\ Le(Add(footprint.w, Num(2)), Sub(chartArea.right, chartArea.left))
    /\ Gt(Add(Add(anchor.x, Num(1)), Div(footprint.w, Num(2))), chartArea.right)
    /\ labelRect.x = Sub(Sub(chartArea.right, Num(1)), Div(footprint.w, Num(2)))

----------------------------------------------------------------------------
(* Draw cycles and hit tests of the label *)

\* -a
AngNeg(a) ==
    IF angIsNaN(a) THEN a
    ELSE IF a.s = Num(0) THEN Angle(-a.q, a.s)
    ELSE Angle(-a.q - 1, Div(Num(1), a.s))

\* rotated of ../helpers: the point turned about the center by the angle
rotated(point, center, angle) ==
    LET cs == cosSin(angle)
        dx == Sub(point.x, center.x)
        dy == Sub(point.y, center.y)
    IN [x |-> Sub(Add(center.x, Mul(cs.cos, dx)), Mul(cs.sin, dy)),
        y |-> Add(Add(center.y, Mul(cs.sin, dx)), Mul(cs.cos, dy))]

isOnLabel(line, rect, mouseX, mouseY) ==
    IF rect = NoRect \/ ~labelIsVisible(line, Undefined) THEN FALSE
    ELSE LET p == rotated([x |-> mouseX, y |-> mouseY], rect, AngNeg(rect.rotation))
             w2 == Div(rect.width, Num(2))
             h2 == Div(rect.height, Num(2))
         IN /\ Ge(p.x, Sub(rect.x, w2)) /\ Le(p.x, Add(rect.x, w2))
            /\ Ge(p.y, Sub(rect.y, h2)) /\ Le(p.y, Add(rect.y, h2))

inRange(line, rect, x, y) ==
    LET borderWidth == line.options.borderWidth
        epsilon == IF isNaN(borderWidth) \/ borderWidth = Num(0) THEN Num(1)
                   ELSE borderWidth
    IN intersects(line, x, y, epsilon) \/ isOnLabel(line, rect, x, y)

\* a line across the middle of the area, a shorter one inside it, and a line
\* to the left of the area
DrawLines ==
    {rawByScale(LabelArea, FALSE, Num(Unit), Undefined),
     rawByXY(LabelArea, TRUE, TRUE, Num(Unit), Num(3 * Unit), Num(2 * Unit), Num(2 * Unit)),
     rawByXY(LabelArea, TRUE, TRUE, Num(-2 * Unit), Num(-Unit), Num(Unit), Num(Unit))}

DrawOptions ==
    {[defaults EXCEPT !.label = [labelWith(c, f, [kind |-> "degrees", value |-> 0], "center",
                                           Num(0), Num(0), Num(0), Undefined)
                                 EXCEPT !.enabled = e]] :
        c \in TextContents, f \in Fonts, e \in BOOLEAN}

MousePoints == {[x |-> Num(2 * Unit), y |-> Num(Unit)], [x |-> Num(0), y |-> Num(0)]}

InitDraw == Constructed(LabelArea)

Update == Resolve(DrawLines, DrawOptions)

IsOnLabel ==
    /\ pc = "drawn"
    /\ \E m \in MousePoints :
          ret' = [op |-> "isOnLabel", x |-> m.x, y |-> m.y,
                  value |-> isOnLabel(This, labelRect, m.x, m.y)]
    /\ pc' = "queried"
    /\ UNCHANGED <<chartArea, raw, el, options, labelRect, widthCache, fresh>>

InRange ==
    /\ pc = "drawn"
    /\ \E m \in MousePoints :
          ret' = [op |-> "inRange", x |-> m.x, y |-> m.y,
                  value |-> inRange(This, labelRect, m.x, m.y)]
    /\ pc' = "queried"
    /\ UNCHANGED <<chartArea, raw, el, options, labelRect, widthCache, fresh>>

NextDraw == Update \/ DrawLabel \/ IsOnLabel \/ InRange

SpecDraw == InitDraw /\ [][NextDraw]_vars

RECURSIVE maxLineWidth(_, _, _)
maxLineWidth(font, lines, i) ==
    IF i > Len(lines) THEN Num(0)
    ELSE Max(measureText(font, lines[i]), maxLineWidth(font, lines, i + 1))

\* C6: in every draw that draws text, the measured width is the widest line
\* of the content in the font of that draw, plus 2 * xPadding.
C6_WidthOfCurrentFont ==
    (pc = "drawn" /\ fresh /\ options.label.content.type \in {"string", "array"})
        => labelRect.width =
              Add(maxLineWidth(options.label.font, contentLines(options.label.content), 1),
                  Mul(Num(2), options.label.xPadding))

\* C9: whenever isOnLabel returns true, the labelRect it tested was written by
\* drawLabel in the latest draw cycle.
C9_NoStaleLabelHit ==
    (ret.op = "isOnLabel" /\ ret.value) => fresh

====
